---- MODULE Spec2Model ----
(***************************************************************************)
(* Model of reactchat/src/App.tsx: a module-level data router built from   *)
(* one route tree, and the root component App that renders it through      *)
(* RouterProvider.                                                         *)
(*                                                                         *)
(* Strings that the router inspects (route paths, locations) are sequences *)
(* of one-character strings, so that prefix, slash and query handling are  *)
(* computed and not assumed.  JavaScript's null/undefined result of a      *)
(* match is the empty sequence <<>>; a successful match is never empty.    *)
(***************************************************************************)
EXTENDS Naturals, Sequences, FiniteSets

VARIABLES
  router,               \* the module-level router: [routes, state]
  routerConstructions,  \* how many times createBrowserRouter has run
  windowLocation,       \* the browser's address (window.location)
  task,                 \* the event loop: "idle" or "navigating"
  inflight,             \* navigations started and not yet completed
  mounted,              \* mounted[i]: instance i of App is mounted
  view,                 \* view[i]: the router state instance i has rendered
  dirty,                \* dirty[i]: a state update is scheduled for i
  heldPages,            \* history: outputs of every state the router held
  everUnmounted         \* history: some instance of App has been unmounted

vars == <<router, routerConstructions, windowLocation, task, inflight,
          mounted, view, dirty, heldPages, everUnmounted>>

----------------------------------------------------------------------------
(* Bounds and inputs *)

NumInstances == 2

Instances == 1..NumInstances

\* Locations the browser can be at: "/", "//", "/u" and "/?q".
Locations ==
  { <<"/">>, <<"/", "/">>, <<"/", "u">>, <<"/", "?", "q">> }

----------------------------------------------------------------------------
(* The route tree of App.tsx *)

\* import Home from './pages/Home': an opaque page, named by its output.
Home == "Home"

\* The library's built-in error element, rendered for a routing error on a
\* route that declares no errorElement.
DefaultErrorComponent == "DefaultErrorComponent"

\* Nothing rendered.
NoOutput == "NoOutput"

\* Variant: the page is declared under "/h" and not under "/".
RouteElementsElsewhere ==
  << [ children |-> << [ path |-> <<"/", "h">>, element |-> Home ] >> ] >>

\* Variant: the "/" entry is declared twice.
RouteElementsTwice ==
  << [ children |-> << [ path |-> <<"/">>, element |-> Home ],
                       [ path |-> <<"/">>, element |-> Home ] >> ] >>

\* Variant: the wrapping route is itself a "/" entry with the page.
RouteElementsNested ==
  << [ path |-> <<"/">>, element |-> Home,
       children |-> << [ path |-> <<"/">>, element |-> Home ] >> ] >>

\* Variant: the "/" entry declares a loader.
RouteElementsWithLoader ==
  << [ children |-> << [ path |-> <<"/">>, element |-> Home,
                         loader |-> TRUE ] >> ] >>

\* <Route> <Route path='/' element={<Home />} /> </Route>
RouteElements ==
  << [ children |-> << [ path |-> <<"/">>, element |-> Home ] >> ] >>

Has(r, f) == f \in DOMAIN r

Digit(n) == <<"0", "1", "2", "3", "4", "5", "6", "7", "8", "9">>[n + 1]

\* createRoutesFromElements: one route object per <Route>, its id the
\* element's position in the tree joined by "-", its props copied.
RECURSIVE createRoutesFromChildren(_, _, _)
createRoutesFromChildren(elements, parentPath, k) ==
  IF k > Len(elements) THEN <<>>
  ELSE
    LET element  == elements[k]
        treePath == IF parentPath = <<>> THEN <<Digit(k - 1)>>
                    ELSE parentPath \o <<"-", Digit(k - 1)>>
        base == [ id |-> treePath,
                  hasPath |-> Has(element, "path"),
                  path |-> IF Has(element, "path") THEN element.path ELSE <<>>,
                  hasElement |-> Has(element, "element"),
                  element |-> IF Has(element, "element") THEN element.element
                              ELSE NoOutput,
                  index |-> Has(element, "index"),
                  hasLoader |-> Has(element, "loader"),
                  children |-> IF Has(element, "children")
                               THEN createRoutesFromChildren(
                                      element.children, treePath, 1)
                               ELSE <<>> ]
    IN <<base>> \o createRoutesFromChildren(elements, parentPath, k + 1)

createRoutesFromElements(elements) ==
  createRoutesFromChildren(elements, <<>>, 1)

----------------------------------------------------------------------------
(* String helpers used by the router's path handling *)

IsPrefix(p, s) == Len(p) <= Len(s) /\ SubSeq(s, 1, Len(p)) = p

Drop(s, n) == SubSeq(s, n + 1, Len(s))

AllSlashes(s) == \A k \in 1..Len(s) : s[k] = "/"

\* s.replace(/\/+$/, "")
RECURSIVE StripTrailingSlashes(_)
StripTrailingSlashes(s) ==
  IF s # <<>> /\ s[Len(s)] = "/" THEN StripTrailingSlashes(SubSeq(s, 1, Len(s) - 1))
  ELSE s

\* s.replace(/^\/*/, "")
RECURSIVE StripLeadingSlashes(_)
StripLeadingSlashes(s) ==
  IF s # <<>> /\ Head(s) = "/" THEN StripLeadingSlashes(Tail(s)) ELSE s

\* s.replace(/\/\/+/g, "/")
RECURSIVE CollapseSlashes(_)
CollapseSlashes(s) ==
  IF Len(s) < 2 THEN s
  ELSE IF s[1] = "/" /\ s[2] = "/" THEN CollapseSlashes(Tail(s))
  ELSE <<Head(s)>> \o CollapseSlashes(Tail(s))

\* joinPaths([a, b]) = [a, b].join("/").replace(/\/\/+/g, "/")
joinPaths(a, b) == CollapseSlashes(a \o <<"/">> \o b)

\* The index of the first "?" of s, or Len(s) + 1.
RECURSIVE SearchIndex(_, _)
SearchIndex(s, k) ==
  IF k > Len(s) THEN k
  ELSE IF s[k] = "?" THEN k ELSE SearchIndex(s, k + 1)

\* parsePath: a location string split into its pathname and its query.
parsePath(l) ==
  LET q == SearchIndex(l, 1)
  IN [ pathname |-> SubSeq(l, 1, q - 1), search |-> SubSeq(l, q, Len(l)) ]

----------------------------------------------------------------------------
(* Route matching, as createBrowserRouter applies it to the route tree *)

\* flattenRoutes: one branch per route that has a path or is an index
\* route, children before their parent; a branch lists the routes from the
\* root down to it (routesMeta), each with its path relative to its parent.
RECURSIVE flattenRoutes(_, _, _, _)
flattenRoutes(routes, parentsMeta, parentPath, k) ==
  IF k > Len(routes) THEN <<>>
  ELSE
    LET route == routes[k]
        given == IF route.hasPath THEN route.path ELSE <<>>
        relativePath == IF given # <<>> /\ Head(given) = "/"
                        THEN Drop(given, Len(parentPath)) ELSE given
        path == joinPaths(parentPath, relativePath)
        routesMeta == Append(parentsMeta,
                             [ relativePath |-> relativePath, route |-> route ])
        below == flattenRoutes(route.children, routesMeta, path, 1)
        own == IF ~route.hasPath /\ ~route.index THEN <<>>
               ELSE << [ path |-> path, routesMeta |-> routesMeta ] >>
    IN below \o own \o flattenRoutes(routes, parentsMeta, parentPath, k + 1)

\* Variant: the pattern need not reach the end of the pathname.
matchPathPrefix(pattern, end, pathname) ==
  LET literal == <<"/">> \o StripLeadingSlashes(StripTrailingSlashes(pattern))
  IN IF ~IsPrefix(literal, pathname) THEN <<>>
     ELSE << [ pathname |-> literal, pathnameBase |-> literal ] >>

\* matchPath for a pattern without parameters or splat.  compilePath turns
\* the pattern into "^" + (pattern without trailing slashes, with exactly
\* one leading slash), followed by "\/*$" when the match must reach the end
\* of the pathname, by a lookahead for "/" or the end when the pattern is
\* neither "" nor "/", and by nothing otherwise.
matchPath(pattern, end, pathname) ==
  LET literal == <<"/">> \o StripLeadingSlashes(StripTrailingSlashes(pattern))
      rest    == Drop(pathname, Len(literal))
      matched == IF end THEN pathname ELSE literal
      ok == /\ IsPrefix(literal, pathname)
            /\ IF end THEN AllSlashes(rest)
               ELSE IF pattern # <<>> /\ pattern # <<"/">>
                    THEN rest = <<>> \/ Head(rest) = "/"
               ELSE TRUE
      stripped == StripTrailingSlashes(matched)
  IN IF ~ok THEN <<>>
     ELSE << [ pathname |-> matched,
               pathnameBase |-> IF stripped = <<>> THEN <<"/">> ELSE stripped ] >>

\* matchRouteBranch: every route of the branch must match what is left of
\* the pathname, the last one up to its end.
RECURSIVE matchRouteBranchFrom(_, _, _, _, _)
matchRouteBranchFrom(routesMeta, pathname, i, matchedPathname, matches) ==
  IF i > Len(routesMeta) THEN matches
  ELSE
    LET meta == routesMeta[i]
        end  == i = Len(routesMeta)
        sliced == Drop(pathname, Len(matchedPathname))
        remainingPathname ==
          IF matchedPathname = <<"/">> THEN pathname
          ELSE IF sliced = <<>> THEN <<"/">> ELSE sliced
        match == matchPath(meta.relativePath, end, remainingPathname)
    IN IF match = <<>> THEN <<>>
       ELSE matchRouteBranchFrom(
              routesMeta, pathname, i + 1,
              IF match[1].pathnameBase # <<"/">>
              THEN joinPaths(matchedPathname, match[1].pathnameBase)
              ELSE matchedPathname,
              Append(matches,
                     [ route |-> meta.route,
                       pathname |-> joinPaths(matchedPathname, match[1].pathname) ]))

matchRouteBranch(branch, pathname) ==
  matchRouteBranchFrom(branch.routesMeta, pathname, 1, <<"/">>, <<>>)

\* matchRoutes: the matches of the first branch that matches the location's
\* pathname (an empty pathname counts as "/"), or null.
RECURSIVE firstMatch(_, _, _)
firstMatch(branches, pathname, k) ==
  IF k > Len(branches) THEN <<>>
  ELSE LET m == matchRouteBranch(branches[k], pathname)
       IN IF m # <<>> THEN m ELSE firstMatch(branches, pathname, k + 1)

matchRoutes(routes, l) ==
  LET pathname == IF parsePath(l).pathname = <<>> THEN <<"/">>
                  ELSE parsePath(l).pathname
  IN firstMatch(flattenRoutes(routes, <<>>, <<>>, 1), pathname, 1)

\* getShortCircuitMatches: the route that carries a routing error: the root
\* route when there is one root, else the first root that is an index route
\* or has no path or the path "/", else a shim route.
shimErrorRoute ==
  [ id |-> <<"s">>, hasPath |-> FALSE, path |-> <<>>, hasElement |-> FALSE,
    element |-> NoOutput, index |-> FALSE, hasLoader |-> FALSE,
    children |-> <<>> ]

getShortCircuitMatches(routes) ==
  LET boundary == { k \in 1..Len(routes) :
                      routes[k].index \/ ~routes[k].hasPath
                        \/ routes[k].path = <<"/">> }
      route == IF Len(routes) = 1 THEN routes[1]
               ELSE IF boundary # {}
                    THEN routes[CHOOSE k \in boundary : \A j \in boundary : k <= j]
               ELSE shimErrorRoute
  IN << [ route |-> route, pathname |-> <<>> ] >>

\* What a navigation to location l commits: the matches and, when nothing
\* matches, a 404 error carried by the short-circuit route.
Resolve(routes, l) ==
  LET matches == matchRoutes(routes, l)
  IN IF matches = <<>>
     THEN [ location |-> l, matches |-> getShortCircuitMatches(routes),
            errors |-> { getShortCircuitMatches(routes)[1].route.id } ]
     ELSE [ location |-> l, matches |-> matches, errors |-> {} ]

\* _renderMatches: the matches up to the first one that carries an error,
\* rendered from the innermost outwards; a route renders its error element
\* when it carries an error, else its element, else its outlet.
RECURSIVE renderFrom(_, _, _, _)
renderFrom(matches, errors, i, outlet) ==
  IF i = 0 THEN outlet
  ELSE LET route == matches[i].route
       IN renderFrom(matches, errors, i - 1,
                     IF route.id \in errors THEN DefaultErrorComponent
                     ELSE IF route.hasElement THEN route.element
                     ELSE outlet)

RenderedOutput(st) ==
  LET failing == { k \in 1..Len(st.matches) : st.matches[k].route.id \in st.errors }
      last == IF failing = {} THEN Len(st.matches)
              ELSE CHOOSE k \in failing : \A j \in failing : k <= j
  IN renderFrom(st.matches, st.errors, last, NoOutput)

\* The route entries (routes that carry a page) a state's matches select.
MatchedEntries(st) ==
  SelectSeq(st.matches, LAMBDA m : m.route.hasElement /\ st.errors = {})

----------------------------------------------------------------------------
(* The router and the root component *)

\* createBrowserRouter(routes): a router that owns the route table and is
\* initialised at once with the resolution of the browser's location.
createBrowserRouter(routes, location) ==
  [ routes |-> routes, state |-> Resolve(routes, location) ]

\* Variant: App hands RouterProvider a router of its own, started at "/".
AppOwnRouter ==
  [ router |-> createBrowserRouter(router.routes, <<"/">>) ]

\* const App = () => <RouterProvider router={router} />: the element App
\* returns names the module-level router.
App == [ router |-> router ]

\* The view of an instance that is not mounted.
NoView == [ location |-> <<>>, matches |-> <<>>, errors |-> {} ]

\* A navigation waits for loaders when a route it matched declares one.
AwaitsLoaders(st) ==
  st.errors = {} /\ \E k \in 1..Len(st.matches) : st.matches[k].route.hasLoader

Init ==
  \E l \in Locations :
    /\ router = createBrowserRouter(createRoutesFromElements(RouteElements), l)
    /\ routerConstructions = 1
    /\ windowLocation = l
    /\ task = "idle"
    /\ inflight = <<>>
    /\ mounted = [ i \in Instances |-> FALSE ]
    /\ view = [ i \in Instances |-> NoView ]
    /\ dirty = [ i \in Instances |-> FALSE ]
    /\ heldPages = { RenderedOutput(Resolve(createRoutesFromElements(RouteElements), l)) }
    /\ everUnmounted = FALSE

\* startNavigation: the location is matched against the route table; with
\* no loader to wait for, the navigation completes in the same task.
startNavigation(historyAction, l) ==
  LET resolved == Resolve(router.routes, l)
  IN /\ inflight' = Append(inflight, [ historyAction |-> historyAction,
                                        location |-> l,
                                        resolved |-> resolved ])
     /\ task' = IF AwaitsLoaders(resolved) THEN "idle" ELSE "navigating"

\* The browser moves to location l (back, forward) and delivers popstate:
\* the router, subscribed to the history since its construction, starts a
\* navigation to the new location.
PopState(l) ==
  /\ task = "idle"
  /\ windowLocation' = l
  /\ startNavigation("POP", l)
  /\ UNCHANGED <<router, routerConstructions, mounted, view, dirty,
                 heldPages, everUnmounted>>

\* router.navigate(l), from a link or from code: the browser's address
\* changes only when the navigation completes.
Navigate(l) ==
  /\ task = "idle"
  /\ startNavigation("PUSH", l)
  /\ UNCHANGED <<router, routerConstructions, windowLocation, mounted, view,
                 dirty, heldPages, everUnmounted>>

\* completeNavigation: the router's state becomes the navigation's
\* resolution, the history is pushed, every subscriber is notified.
completeNavigation(nav) ==
  /\ router' = [ router EXCEPT !.state = nav.resolved ]
  /\ windowLocation' = nav.location
  /\ dirty' = [ i \in Instances |-> mounted[i] ]
  /\ heldPages' = heldPages \cup { RenderedOutput(nav.resolved) }
  /\ inflight' = <<>>
  /\ task' = "idle"
  /\ UNCHANGED <<routerConstructions, mounted, view, everUnmounted>>

\* Variant: a navigation that matched nothing is never completed.
CompleteNavigationMatchedOnly ==
  /\ inflight # <<>>
  /\ inflight[Len(inflight)].resolved.errors = {}
  /\ completeNavigation(inflight[Len(inflight)])

CompleteNavigation ==
  /\ inflight # <<>>
  /\ completeNavigation(inflight[Len(inflight)])

\* Variant: the router is constructed by the component, at each mount.
MountConstructing(i) ==
  /\ task = "idle"
  /\ ~mounted[i]
  /\ mounted' = [ mounted EXCEPT ![i] = TRUE ]
  /\ view' = [ view EXCEPT ![i] = App.router.state ]
  /\ dirty' = [ dirty EXCEPT ![i] = FALSE ]
  /\ routerConstructions' = routerConstructions + 1
  /\ UNCHANGED <<router, windowLocation, task, inflight, heldPages,
                 everUnmounted>>

\* App is mounted: RouterProvider starts from the router's current state
\* and subscribes to it.
Mount(i) ==
  /\ task = "idle"
  /\ ~mounted[i]
  /\ mounted' = [ mounted EXCEPT ![i] = TRUE ]
  /\ view' = [ view EXCEPT ![i] = App.router.state ]
  /\ dirty' = [ dirty EXCEPT ![i] = FALSE ]
  /\ UNCHANGED <<router, routerConstructions, windowLocation, task, inflight,
                 heldPages, everUnmounted>>

\* Variant: a re-render keeps the output of the first render.
RenderKeepingView(i) ==
  /\ task = "idle"
  /\ mounted[i]
  /\ dirty[i]
  /\ dirty' = [ dirty EXCEPT ![i] = FALSE ]
  /\ UNCHANGED <<router, routerConstructions, windowLocation, task, inflight,
                 mounted, view, heldPages, everUnmounted>>

\* App is rendered again, by its parent or by a scheduled state update:
\* the same router is handed to RouterProvider, which renders the state it
\* was last notified of.
Render(i) ==
  /\ task = "idle"
  /\ mounted[i]
  /\ view' = [ view EXCEPT ![i] = IF dirty[i] THEN App.router.state ELSE @ ]
  /\ dirty' = [ dirty EXCEPT ![i] = FALSE ]
  /\ UNCHANGED <<router, routerConstructions, windowLocation, task, inflight,
                 mounted, heldPages, everUnmounted>>

\* Variant: unmounting disposes of the router and its route table.
UnmountDisposing(i) ==
  /\ task = "idle"
  /\ mounted[i]
  /\ mounted' = [ mounted EXCEPT ![i] = FALSE ]
  /\ view' = [ view EXCEPT ![i] = NoView ]
  /\ dirty' = [ dirty EXCEPT ![i] = FALSE ]
  /\ everUnmounted' = TRUE
  /\ router' = [ router EXCEPT !.routes = <<>> ]
  /\ UNCHANGED <<routerConstructions, windowLocation, task, inflight,
                 heldPages>>

\* App is unmounted: RouterProvider unsubscribes; the router stays.
Unmount(i) ==
  /\ task = "idle"
  /\ mounted[i]
  /\ mounted' = [ mounted EXCEPT ![i] = FALSE ]
  /\ view' = [ view EXCEPT ![i] = NoView ]
  /\ dirty' = [ dirty EXCEPT ![i] = FALSE ]
  /\ everUnmounted' = TRUE
  /\ UNCHANGED <<router, routerConstructions, windowLocation, task, inflight,
                 heldPages>>

Next ==
  \/ \E l \in Locations : PopState(l)
  \/ \E l \in Locations : Navigate(l)
  \/ CompleteNavigation
  \/ \E i \in Instances : Mount(i)
  \/ \E i \in Instances : Render(i)
  \/ \E i \in Instances : Unmount(i)

Spec == Init /\ [][Next]_vars

\* A started navigation runs to completion within its task, and the
\* renderer commits every scheduled update even while events keep coming.
LiveSpec ==
  /\ Init
  /\ [][Next]_vars
  /\ WF_vars(CompleteNavigation)
  /\ \A i \in Instances : SF_vars(Render(i))

----------------------------------------------------------------------------
(* Properties *)

Root == <<"/">>

\* The router states that are on display: the router's own, and the one
\* each mounted instance of App has rendered.
Shown == { router.state } \cup { view[i] : i \in { j \in Instances : mounted[j] } }

\* Every route object of a route table, parents before children.
RECURSIVE AllRoutes(_, _)
AllRoutes(routes, k) ==
  IF k > Len(routes) THEN <<>>
  ELSE <<routes[k]>> \o AllRoutes(routes[k].children, 1) \o AllRoutes(routes, k + 1)

\* The positions of the route table's entries that declare a path.
PathEntries(routes) ==
  { k \in 1..Len(AllRoutes(routes, 1)) : AllRoutes(routes, 1)[k].hasPath }

\* The location's pathname holds a character other than "/".
HasSegment(l) == ~AllSlashes(parsePath(l).pathname)

\* C1: whenever the current location is "/" and its resolution is done,
\* every mounted instance of App that has rendered the router's state shows
\* the Home page's output, whatever locations were visited before.
C1_RootRendersHome ==
  \A i \in Instances :
    (task = "idle" /\ windowLocation = Root /\ mounted[i] /\ ~dirty[i])
      => RenderedOutput(view[i]) = Home

C1_Witness ==
  /\ task = "idle" /\ windowLocation = Root
  /\ DefaultErrorComponent \in heldPages
  /\ mounted[1] /\ ~dirty[1] /\ RenderedOutput(view[1]) = Home

\* C2 as stated: for every location other than "/", nothing matches and
\* the Home page is not rendered.  The location is taken by its path, so
\* that a query alone does not make it another location.
C2_OtherLocationsUnmatched ==
  \A st \in Shown :
    parsePath(st.location).pathname # Root
      => (st.errors # {} /\ RenderedOutput(st) # Home)

\* C2, amended: for every location whose pathname holds a character other
\* than "/", no route entry matches, the Home page is not rendered and the
\* error is carried by the declared pathless root route, no fallback or
\* not-found route being selected; a location that differs from "/" only
\* by further slashes or by a query resolves to the "/" entry.
C2_SegmentLocationsUnmatched ==
  \A st \in Shown :
    /\ HasSegment(st.location) =>
         /\ st.errors # {}
         /\ MatchedEntries(st) = <<>>
         /\ RenderedOutput(st) # Home
         /\ \A k \in 1..Len(st.matches) :
              /\ ~st.matches[k].route.hasElement
              /\ st.matches[k].route.id # shimErrorRoute.id
              /\ \E j \in 1..Len(router.routes) :
                   router.routes[j] = st.matches[k].route
    /\ ~HasSegment(st.location) =>
         (st.errors = {} /\ RenderedOutput(st) = Home)

C2_Witness ==
  /\ task = "idle" /\ windowLocation = <<"/", "u">>
  /\ mounted[1] /\ ~dirty[1] /\ view[1].location = <<"/", "u">>
  /\ RenderedOutput(view[1]) = DefaultErrorComponent
  /\ Home \in heldPages

\* C3: after any number of mounts, unmounts and re-renders of App the
\* router has been constructed exactly once, and its route table holds the
\* entries it was built with, none of them twice.
C3_OneConstruction ==
  /\ routerConstructions = 1
  /\ AllRoutes(router.routes, 1) = AllRoutes(createRoutesFromElements(RouteElements), 1)
  /\ \A j, k \in 1..Len(AllRoutes(router.routes, 1)) :
       AllRoutes(router.routes, 1)[j] = AllRoutes(router.routes, 1)[k] => j = k

C3_Witness ==
  /\ everUnmounted
  /\ \A i \in Instances : mounted[i] /\ ~dirty[i]
  /\ heldPages = { Home, DefaultErrorComponent }
  /\ routerConstructions = 1

\* C4: the route table holds exactly one entry with the path "/", that
\* entry shows the Home page, and no two entries declare the same path.
C4_OneRootEntry ==
  LET all == AllRoutes(router.routes, 1)
  IN /\ Cardinality({ k \in PathEntries(router.routes) : all[k].path = Root }) = 1
     /\ \A k \in PathEntries(router.routes) :
          all[k].path = Root => (all[k].hasElement /\ all[k].element = Home)
     /\ \A j, k \in PathEntries(router.routes) : all[j].path = all[k].path => j = k

C4_Witness ==
  /\ Len(AllRoutes(router.routes, 1)) = 2
  /\ PathEntries(router.routes) = {2}
  /\ mounted[1] /\ RenderedOutput(view[1]) = Home

\* C5: while App is mounted, a started navigation is eventually resolved
\* and an instance whose output is behind the router's state eventually
\* renders that state (or is unmounted); and what an instance shows is
\* always the output of a state the router has held.
C5_RendersEachChange ==
  /\ [](\A i \in Instances : mounted[i] => RenderedOutput(view[i]) \in heldPages)
  /\ (inflight # <<>>) ~> (inflight = <<>>)
  /\ \A i \in Instances :
       (mounted[i] /\ view[i] # router.state)
         ~> (~mounted[i] \/ view[i] = router.state)

C5_Witness ==
  /\ mounted[1] /\ dirty[1]
  /\ RenderedOutput(view[1]) # RenderedOutput(router.state)
  /\ heldPages = { Home, DefaultErrorComponent }

\* C6: no step (location change, resolution, mount, render or unmount)
\* changes the route table or replaces the router that owns it.
C6_RouteTableImmutable ==
  [][router'.routes = router.routes /\ routerConstructions' = routerConstructions]_vars

C6_Witness ==
  /\ everUnmounted
  /\ heldPages = { Home, DefaultErrorComponent }
  /\ mounted[1] /\ ~dirty[1] /\ view[1] = router.state
  /\ router.routes = createRoutesFromElements(RouteElements)

\* C7: the router never resolves a location to two or more route entries:
\* in the state it holds, in a navigation under way and in what is shown.
C7_AtMostOneEntry ==
  /\ \A st \in Shown : Len(MatchedEntries(st)) <= 1
  /\ \A k \in 1..Len(inflight) : Len(MatchedEntries(inflight[k].resolved)) <= 1

C7_Witness ==
  /\ Len(MatchedEntries(router.state)) = 1
  /\ inflight # <<>> /\ Len(MatchedEntries(inflight[1].resolved)) = 0

\* C8: at most one route resolution is under way, and it completes within
\* the task that started it: no location-change event is handled, and the
\* location is not read, while a resolution is under way.
C8_OneResolutionAtATime ==
  /\ Len(inflight) <= 1
  /\ task = "idle" => inflight = <<>>
  /\ inflight # <<>> => \A l \in Locations : ~ENABLED PopState(l) /\ ~ENABLED Navigate(l)

C8_Witness ==
  /\ task = "navigating" /\ Len(inflight) = 1
  /\ inflight[1].historyAction = "POP"
  /\ inflight[1].location # router.state.location
  /\ windowLocation = inflight[1].location

\* C9: there is no terminal state: in every reachable state either the
\* router is idle, where PopState and Navigate have no other guard and so
\* every location change is accepted, or the resolution under way can
\* complete and return the router to idle.
C9_NoTerminalState ==
  task = "idle" \/ ENABLED CompleteNavigation

C9_Witness ==
  /\ task = "navigating"
  /\ inflight[1].resolved.errors # {}
  /\ everUnmounted /\ \A i \in Instances : ~mounted[i]

\* C10: every mounted instance of App that is up to date shows the state
\* of the one module-level router, so all of them show the same location
\* and page, and an instance mounted after a location change shows the
\* changed location, not the one the router started at.
C10_SharedRouter ==
  \A i \in Instances : (mounted[i] /\ ~dirty[i]) => view[i] = router.state

C10_Witness ==
  /\ NumInstances >= 2
  /\ mounted[1] /\ mounted[2] /\ ~dirty[1] /\ ~dirty[2]
  /\ view[1] = view[2]
  /\ view[1].location = <<"/", "u">>
  /\ Home \in heldPages

====
